---- MODULE Spec2Model ----
(***************************************************************************)
(* A model of package gocli: the command tree (Command, AddChild, Find,    *)
(* ExitCommand, HelpCommand, RecurseParents, DefaultHelp), the interactive *)
(* loop Command.Execute, and the tokenizer parseArgs.                      *)
(*                                                                         *)
(* Commands are heap objects; a pointer is a node number and Nil is the    *)
(* nil pointer.  The call stack of nested Execute calls is the variable    *)
(* stack; one step of the loop runs from the return of readString to the   *)
(* next call of readString (Execute blocks nowhere else).                  *)
(***************************************************************************)
EXTENDS Integers, Sequences, FiniteSets, TLC

\* ---------------------------------------------------------------- bounds

\* Heap size: host commands plus the commands Execute and Load hooks allocate.
MaxNodes == 8
\* Commands the host attaches: the arguments of its AddChild calls and its
\* ExitCommand calls.
MaxAdds == 2
\* Length of a childs slice.
MaxChilds == 5

Nil == 0
Nodes == 1..MaxNodes
\* The commands the host program constructs before composing the tree.
Hosts == {1, 2, 3}

\* Run is "nil", "user" (a host function) or "DefaultHelp"; Load is "nil",
\* "noop" (a hook that attaches nothing) or "populate" (a hook that attaches
\* a new leaf).

\* The host's commands: a, which has no Load hook, and two commands named
\* b, one whose hook populates it and one whose hook attaches nothing.
HostName(n) == IF n = 1 THEN "a" ELSE "b"
HostLoad(n) == IF n = 1 THEN "nil" ELSE IF n = 2 THEN "populate" ELSE "noop"
Names == {"a", "b", "item", "exit", "help"}

VARIABLES
    name,      \* Command.Name
    run,       \* Command.Run
    load,      \* Command.Load
    childs,    \* Command.childs
    parent,    \* Command.parent
    exit,      \* Command.exit
    help,      \* Command.help
    used,      \* number of Commands allocated so far
    stack,     \* active Execute calls, outermost first
    pc,        \* "idle" | "prompt" | "unwind" | "panic" | "hang"
    result,    \* what the last top-level Execute returned ("none" before)
    out,       \* what the last step did (its output and calls)
    adds,      \* commands attached by the host
    started,   \* the host has called Execute
    err,       \* the error an Execute call is returning ("nil": none)
    eof,       \* standard input is at end-of-input
    line,      \* the variable input of Execute's loop, a string
    toks,      \* the variable args of Execute's loop
    tpc        \* where one iteration on line stands ("off": not followed)

\* The strings of the loop are followed character by character in the
\* specification SpecTok only; Spec takes the lines as parseArgs split them.
tokvars == <<line, toks, tpc>>

cmdvars == <<name, run, load, childs, parent, exit, help, used,
             stack, pc, result, out, adds, started, err, eof>>

vars == <<cmdvars, tokvars>>

\* ------------------------------------------------------------------ heap

\* The heap as one value, so that the functions below can thread it.
Heap ==
    [name |-> name, run |-> run, load |-> load, childs |-> childs,
     parent |-> parent, exit |-> exit, help |-> help, used |-> used,
     panic |-> FALSE, hang |-> FALSE]

\* &Command{Name: nm, Run: rn}: the new command is number T.used + 1.
NewCommand(T, nm, rn) ==
    [T EXCEPT !.used = @ + 1,
              !.name[T.used + 1] = nm,
              !.run[T.used + 1] = rn]

\* AddChild prepending instead of appending.
RECURSIVE AddChildPrepend(_, _, _)
AddChildPrepend(T, c, cmds) ==
    IF cmds = <<>> \/ T.panic THEN T
    ELSE LET v == Head(cmds)
         IN IF v = c THEN [T EXCEPT !.panic = TRUE]
            ELSE AddChildPrepend([T EXCEPT !.parent[v] = c,
                                           !.childs[c] = <<v>> \o @],
                                 c, Tail(cmds))

\* func (c *Command) AddChild(cmds ...*Command): the range loop; a panic
\* keeps what the earlier iterations did.
RECURSIVE AddChild(_, _, _)
AddChild(T, c, cmds) ==
    IF cmds = <<>> \/ T.panic THEN T
    ELSE LET v == Head(cmds)
         IN IF v = c THEN [T EXCEPT !.panic = TRUE]
            ELSE AddChild([T EXCEPT !.parent[v] = c,
                                    !.childs[c] = Append(@, v)],
                          c, Tail(cmds))

\* func ExitCommand(parent *Command) *Command
ExitCommand(T, p) ==
    LET T1 == NewCommand(T, "exit", "nil")
    IN AddChild([T1 EXCEPT !.exit[p] = T1.used], p, <<T1.used>>)

\* func HelpCommand(parent *Command) *Command
HelpCommand(T, p) ==
    LET T1 == NewCommand(T, "help", "DefaultHelp")
    IN AddChild([T1 EXCEPT !.help[p] = T1.used], p, <<T1.used>>)

\* Find returning the last child with the name instead of the first.
FindLast(T, c, nm) ==
    LET hits == {i \in 1..Len(T.childs[c]) : T.name[T.childs[c][i]] = nm}
    IN IF hits = {} THEN Nil
       ELSE T.childs[c][CHOOSE i \in hits : \A j \in hits : j <= i]

\* func (self *Command) Find(name string) *Command
Find(T, c, nm) ==
    LET hits == {i \in 1..Len(T.childs[c]) : T.name[T.childs[c][i]] = nm}
    IN IF hits = {} THEN Nil
       ELSE T.childs[c][CHOOSE i \in hits : \A j \in hits : i <= j]

\* --------------------------------------------------------- RecurseParents

\* The for loop of RecurseParents with f returning false throughout, from
\* the loop variable parent = p on: the calls of f it makes, cut after
\* fuel iterations.
RECURSIVE Walk(_, _, _)
Walk(T, p, fuel) ==
    IF fuel = 0 THEN <<>>
    ELSE IF T.parent[p] = Nil
         THEN <<[cmd |-> p, first |-> FALSE, last |-> TRUE]>>
         ELSE <<[cmd |-> p, first |-> FALSE, last |-> FALSE]>>
              \o Walk(T, T.parent[p], fuel - 1)

\* The calls f(cmd, first, last) RecurseParents(cmd, f) makes, in order, as
\* long as f returns false.  A heap holds at most MaxNodes commands, so a
\* walk of MaxNodes iterations that met no command without parent is in a
\* cycle and has visited all of it.
Visits(T, cmd) ==
    <<[cmd |-> cmd, first |-> TRUE, last |-> FALSE]>>
    \o (IF T.parent[cmd] = Nil THEN <<>> ELSE Walk(T, T.parent[cmd], MaxNodes))

\* RecurseParents(cmd, f) does not return when f never returns true.
Endless(T, cmd) ==
    LET v == Visits(T, cmd)
    IN T.parent[cmd] # Nil /\ ~v[Len(v)].last

\* The first call of the walk on which f returns true, 0 when there is none;
\* has[c] tells whether f returns true on command c.
FirstHit(T, cmd, has) ==
    LET v == Visits(T, cmd)
        hits == {i \in 1..Len(v) : has[v[i].cmd]}
    IN IF hits = {} THEN 0 ELSE CHOOSE i \in hits : \A j \in hits : i <= j

\* The last call of the walk on which f would return true.
FarthestHit(T, cmd, has) ==
    LET v == Visits(T, cmd)
        hits == {i \in 1..Len(v) : has[v[i].cmd]}
    IN IF hits = {} THEN 0 ELSE CHOOSE i \in hits : \A j \in hits : j <= i

\* ---------------------------------------------------------------- Execute

\* Help resolution recording an ancestor's help command without attaching
\* it to self.
ResolveHelpNoAttach(T, self) ==
    LET i == FirstHit(T, self, [c \in Nodes |-> T.help[c] # Nil])
        h == T.help[Visits(T, self)[i].cmd]
    IN IF i # 0 THEN [T EXCEPT !.help[self] = h]
       ELSE IF Endless(T, self) THEN [T EXCEPT !.hang = TRUE]
       ELSE HelpCommand(T, self)

\* Execute's first RecurseParents call and its HelpCommand fallback.
ResolveHelp(T, self) ==
    LET i == FirstHit(T, self, [c \in Nodes |-> T.help[c] # Nil])
        h == T.help[Visits(T, self)[i].cmd]
    IN IF i # 0 THEN AddChild([T EXCEPT !.help[self] = h], self, <<h>>)
       ELSE IF Endless(T, self) THEN [T EXCEPT !.hang = TRUE]
       ELSE HelpCommand(T, self)

\* Exit resolution taking the farthest ancestor's exit command.
ResolveExitFarthest(T, self) ==
    LET i == FarthestHit(T, self, [c \in Nodes |-> T.exit[c] # Nil])
        e == T.exit[Visits(T, self)[i].cmd]
    IN IF i # 0 THEN AddChild([T EXCEPT !.exit[self] = e], self, <<e>>)
       ELSE IF Endless(T, self) THEN [T EXCEPT !.hang = TRUE]
       ELSE ExitCommand(T, self)

\* Execute's second RecurseParents call and its ExitCommand fallback.
ResolveExit(T, self) ==
    LET i == FirstHit(T, self, [c \in Nodes |-> T.exit[c] # Nil])
        e == T.exit[Visits(T, self)[i].cmd]
    IN IF i # 0 THEN AddChild([T EXCEPT !.exit[self] = e], self, <<e>>)
       ELSE IF Endless(T, self) THEN [T EXCEPT !.hang = TRUE]
       ELSE ExitCommand(T, self)

\* self.Load(self): the host's hook.  "populate" attaches one new leaf.
Load(T, self) ==
    IF T.load[self] = "populate"
    THEN LET T1 == NewCommand(T, "item", "user")
         IN AddChild(T1, self, <<T1.used>>)
    ELSE T

\* The entry checks without the check of Run against childs.
ConflictErrorNoChilds(T, self) ==
    IF T.load[self] # "nil" /\ T.run[self] # "nil" THEN "RunAndLoad" ELSE "nil"

\* The three configuration errors of Execute's entry, "nil" when it passes.
\* T is the heap at the call for the first two checks and the heap after
\* Load for the third.
ConflictError(T, self) ==
    IF T.run[self] # "nil" /\ T.childs[self] # <<>> THEN "ActionAndChilds"
    ELSE IF T.load[self] # "nil" /\ T.run[self] # "nil" THEN "RunAndLoad"
    ELSE "nil"

EmptyError(T, self) ==
    IF T.run[self] = "nil" /\ T.childs[self] = <<>> THEN "Neither" ELSE "nil"

\* Execute's entry with the check for neither action nor childs made before
\* the Load hook is called.
EnterLoadLate(T, self) ==
    IF ConflictError(T, self) # "nil"
    THEN [heap |-> T, err |-> ConflictError(T, self), loaded |-> <<>>]
    ELSE IF EmptyError(T, self) # "nil"
    THEN [heap |-> T, err |-> EmptyError(T, self), loaded |-> <<>>]
    ELSE LET hooked == T.load[self] # "nil"
             T1 == IF hooked THEN Load(T, self) ELSE T
             T2 == IF T1.panic THEN T1 ELSE ResolveHelp(T1, self)
             T3 == IF T2.panic \/ T2.hang THEN T2 ELSE ResolveExit(T2, self)
         IN [heap |-> T3, err |-> "nil",
             loaded |-> IF hooked THEN <<self>> ELSE <<>>]

\* Execute from its call to its first prompt: the error it returns without
\* looping, or the heap with which its loop starts.  loaded lists the
\* commands whose Load hook ran.
Enter(T, self) ==
    IF ConflictError(T, self) # "nil"
    THEN [heap |-> T, err |-> ConflictError(T, self), loaded |-> <<>>]
    ELSE LET hooked == T.load[self] # "nil"
             T1 == IF hooked THEN Load(T, self) ELSE T
             loaded == IF hooked THEN <<self>> ELSE <<>>
         IN IF T1.panic
            THEN [heap |-> T1, err |-> "nil", loaded |-> loaded]
            ELSE IF EmptyError(T1, self) # "nil"
            THEN [heap |-> T1, err |-> EmptyError(T1, self), loaded |-> loaded]
            ELSE LET T2 == ResolveHelp(T1, self)
                     T3 == IF T2.panic \/ T2.hang THEN T2
                           ELSE ResolveExit(T2, self)
                 IN [heap |-> T3, err |-> "nil", loaded |-> loaded]

\* func DefaultHelp(cmd *Command, args []string): what it prints.
DefaultHelp(T, cmd, args) ==
    LET p == T.parent[cmd]
    IN IF Len(args) > 1 THEN [ev |-> "helpUsage", listed |-> <<>>]
       ELSE IF p = Nil THEN [ev |-> "nilDeref", listed |-> <<>>]
       ELSE IF Len(args) = 0 THEN [ev |-> "helpList", listed |-> T.childs[p]]
       ELSE IF Find(T, p, args[1]) = Nil
            THEN [ev |-> "helpNotFound", listed |-> <<>>]
            ELSE [ev |-> "helpOne", listed |-> <<Find(T, p, args[1])>>]

\* A prompt is the sequence of the pieces fmt.Sprintf joins.

\* The prompt closure visiting the whole chain up to the root in the middle
\* form, without the root form.
PromptVisitNoRoot(T, v, prompt) ==
    IF v.first THEN <<T.name[v.cmd], ")>">>
    ELSE <<T.name[v.cmd], "/">> \o prompt

\* The closure Execute passes to RecurseParents to build its prompt: the
\* value of prompt after the call f(v.cmd, v.first, v.last).
PromptVisit(T, v, prompt) ==
    IF v.first THEN <<T.name[v.cmd], ")>">>
    ELSE IF v.last THEN <<T.name[v.cmd], "(">> \o prompt
    ELSE <<T.name[v.cmd], "/">> \o prompt

\* prompt after the calls v[i], v[i + 1], ... of the walk.
RECURSIVE PromptFrom(_, _, _, _)
PromptFrom(T, v, i, prompt) ==
    IF i > Len(v) THEN prompt
    ELSE PromptFrom(T, v, i + 1, PromptVisit(T, v[i], prompt))

\* What the loop of self prints before it reads a line.
Prompt(T, self) ==
    IF T.parent[self] = Nil THEN <<T.name[self], ">">>
    ELSE PromptFrom(T, Visits(T, self), 1, <<>>)

\* ---------------------------------------------------------------- strings
\* A string is a sequence of characters: a letter, a space, a tab, a double
\* quote.  readString has removed every \n and \r.

Quote == "\""
Chars == {"a", " ", "\t", Quote}
\* Length of a line read.
MaxLine == 6

\* \s of the regular expression, on these characters.
IsSpace(c) == c \in {" ", "\t"}

\* strings.Trim(input, " ")
RECURSIVE TrimLeft(_)
TrimLeft(s) == IF s # <<>> /\ Head(s) = " " THEN TrimLeft(Tail(s)) ELSE s

RECURSIVE TrimRight(_)
TrimRight(s) ==
    IF s # <<>> /\ s[Len(s)] = " " THEN TrimRight(SubSeq(s, 1, Len(s) - 1))
    ELSE s

Trim(s) == TrimRight(TrimLeft(s))

\* The last double quote of s after position i, 0 when there is none.
LastQuoteAfter(s, i) ==
    LET q == {j \in (i + 1)..Len(s) : s[j] = Quote}
    IN IF q = {} THEN 0 ELSE CHOOSE j \in q : \A k \in q : k <= j

\* The end of the run of non-space characters that starts at position i.
RunEnd(s, i) ==
    CHOOSE k \in i..Len(s) :
        /\ \A j \in i..k : ~IsSpace(s[j])
        /\ k = Len(s) \/ IsSpace(s[k + 1])

\* The closing quote of a quoted match that opens at position i.  The group
\* (?:[^"]|\")* takes any character, the double quote too (\" is a double
\* quote in a raw string), and * is greedy: the match runs to the last
\* double quote of the string.
ClosingQuote(s, i) == LastQuoteAfter(s, i)

\* rArgs.FindAllStringSubmatch(s, -1) from position i on: the submatches
\* m[1], m[2] of the successive leftmost matches of PARAMETERS_PATTERN, the
\* first alternative tried first.  A group that took no part is "".
RECURSIVE FindAllStringSubmatch(_, _)
FindAllStringSubmatch(s, i) ==
    IF i > Len(s) THEN <<>>
    ELSE IF s[i] = Quote /\ ClosingQuote(s, i) # 0
    THEN <<[m1 |-> SubSeq(s, i + 1, ClosingQuote(s, i) - 1), m2 |-> <<>>]>>
         \o FindAllStringSubmatch(s, ClosingQuote(s, i) + 1)
    ELSE IF ~IsSpace(s[i])
    THEN <<[m1 |-> <<>>, m2 |-> SubSeq(s, i, RunEnd(s, i))]>>
         \o FindAllStringSubmatch(s, RunEnd(s, i) + 1)
    ELSE FindAllStringSubmatch(s, i + 1)

\* parseArgs without the fallback for a string with no match.
parseArgsNoFallback(s) ==
    LET matches == FindAllStringSubmatch(s, 1)
    IN [i \in 1..Len(matches) |->
          IF Len(matches[i].m1) > 0 THEN matches[i].m1 ELSE matches[i].m2]

\* func parseArgs(args string) []string
parseArgs(s) ==
    LET matches == FindAllStringSubmatch(s, 1)
    IN IF matches = <<>> THEN <<s>>
       ELSE [i \in 1..Len(matches) |->
               IF Len(matches[i].m1) > 0 THEN matches[i].m1
               ELSE matches[i].m2]

\* ------------------------------------------------------------ state machine
\* The host composes the tree (AddChild, ExitCommand) and then
\* calls Execute; it composes no more once it has called Execute.

\* What a step printed and called: the kind of event, the commands a help
\* listing printed, the commands whose Load hook was called.
Event(ev, listed, loaded) == [ev |-> ev, listed |-> listed, loaded |-> loaded]

NoOut == Event("none", <<>>, <<>>)

\* The host's commands; a and the first b with or without a Run function.
Init ==
    /\ name = [n \in Nodes |-> IF n \in Hosts THEN HostName(n) ELSE ""]
    /\ run \in [Nodes -> {"nil", "user"}]
    /\ load = [n \in Nodes |-> IF n \in Hosts THEN HostLoad(n) ELSE "nil"]
    /\ \A n \in Nodes \ {1, 2} : run[n] = "nil"
    /\ childs = [n \in Nodes |-> <<>>]
    /\ parent = [n \in Nodes |-> Nil]
    /\ exit = [n \in Nodes |-> Nil]
    /\ help = [n \in Nodes |-> Nil]
    /\ used = Cardinality(Hosts)
    /\ stack = <<>>
    /\ pc = "idle"
    /\ result = "none"
    /\ out = NoOut
    /\ adds = 0
    /\ started = FALSE
    /\ err = "nil"
    /\ eof = FALSE
    /\ line = <<>>
    /\ toks = <<>>
    /\ tpc = "off"

\* The model's bounds on a heap the program is about to have.
Fits(T) ==
    /\ T.used <= MaxNodes
    /\ \A n \in Nodes : Len(T.childs[n]) <= MaxChilds

Commit(T) ==
    /\ name' = T.name
    /\ run' = T.run
    /\ load' = T.load
    /\ childs' = T.childs
    /\ parent' = T.parent
    /\ exit' = T.exit
    /\ help' = T.help
    /\ used' = T.used

HeapUnchanged == UNCHANGED <<name, run, load, childs, parent, exit, help, used>>

ArgLists == UNION {[1..k -> Hosts] : k \in 1..MaxAdds}

\* The host calls p.AddChild(cmds...).
HostAddChild(p, cmds) ==
    /\ pc = "idle"
    /\ ~started
    /\ adds + Len(cmds) <= MaxAdds
    /\ Len(childs[p]) + Len(cmds) <= MaxChilds
    /\ LET T == AddChild(Heap, p, cmds)
       IN /\ Commit(T)
          /\ pc' = IF T.panic THEN "panic" ELSE "idle"
          /\ out' = Event("AddChild", <<>>, <<>>)
    /\ adds' = adds + Len(cmds)
    /\ UNCHANGED <<stack, result, started, err, eof, tokvars>>

\* The host calls ExitCommand(p) on a command that has no exit command yet.
HostExitCommand(p) ==
    /\ pc = "idle"
    /\ ~started
    /\ adds < MaxAdds
    /\ exit[p] = Nil
    /\ Fits(ExitCommand(Heap, p))
    /\ Commit(ExitCommand(Heap, p))
    /\ out' = Event("ExitCommand", <<>>, <<>>)
    /\ adds' = adds + 1
    /\ UNCHANGED <<stack, pc, result, started, err, eof, tokvars>>

\* What a call c.Execute() made with call stack stk does up to its first
\* prompt or its return: the next pc.
AfterEnter(r, stk) ==
    IF r.heap.panic THEN "panic"
    ELSE IF r.heap.hang THEN "hang"
    ELSE IF r.err = "nil" THEN "prompt"
    ELSE IF stk = <<>> THEN "idle"
    ELSE "unwind"

\* The host calls c.Execute().
HostExecute(c) ==
    /\ pc = "idle"
    /\ LET r == Enter(Heap, c)
       IN /\ Fits(r.heap)
          /\ Commit(r.heap)
          /\ pc' = AfterEnter(r, <<>>)
          /\ stack' = IF AfterEnter(r, <<>>) = "idle" THEN <<>> ELSE <<c>>
          /\ result' = IF AfterEnter(r, <<>>) = "idle" THEN r.err ELSE "none"
          /\ out' = Event("Execute", <<>>, r.loaded)
    /\ started' = TRUE
    /\ UNCHANGED <<adds, err, eof, tokvars>>

Top == stack[Len(stack)]

\* readString fails: Execute prints the error and continues its loop.
\* At end-of-input every later read fails the same way.
ReadFail(e) ==
    /\ pc = "prompt"
    /\ eof => e = "EOF"
    /\ eof' = (e = "EOF")
    /\ out' = Event("readError", <<>>, <<>>)
    /\ HeapUnchanged
    /\ UNCHANGED <<stack, pc, result, adds, started, err, tokvars>>

\* A line that is empty after strings.Trim: the loop continues.
EmptyLine ==
    /\ pc = "prompt"
    /\ ~eof
    /\ out' = Event("empty", <<>>, <<>>)
    /\ HeapUnchanged
    /\ UNCHANGED <<stack, pc, result, adds, started, err, eof, tokvars>>

\* The lines the user types, as parseArgs splits them: a command name and
\* at most one argument.
Inputs ==
    {<<c>> : c \in Names \cup {"zz"}}
    \cup {<<"help", "b">>}

\* selCmd := self.Find(args[0])
Selected(args) == Find(Heap, Top, args[1])

\* An unknown command name ending the loop as the exit command does.
InvalidBreak(selCmd, args) ==
    /\ selCmd = Nil
    /\ stack' = SubSeq(stack, 1, Len(stack) - 1)
    /\ pc' = IF Len(stack) = 1 THEN "idle" ELSE "prompt"
    /\ result' = IF Len(stack) = 1 THEN "nil" ELSE result
    /\ out' = Event("invalid", <<>>, <<>>)
    /\ HeapUnchanged
    /\ UNCHANGED err

\* selCmd == nil: the invalid-command message, which reads self.help.Name.
Invalid(selCmd, args) ==
    /\ selCmd = Nil
    /\ pc' = IF help[Top] = Nil THEN "panic" ELSE "prompt"
    /\ out' = Event("invalid", <<>>, <<>>)
    /\ HeapUnchanged
    /\ UNCHANGED <<stack, result, err>>

\* A break that leaves the loop of every active Execute call at once.
ExitAll(selCmd, args) ==
    /\ selCmd # Nil
    /\ selCmd = exit[Top]
    /\ stack' = <<>>
    /\ pc' = "idle"
    /\ result' = "nil"
    /\ out' = Event("exit", <<>>, <<>>)
    /\ HeapUnchanged
    /\ UNCHANGED err

\* selCmd == self.exit: break, and Execute returns nil; the calling loop,
\* if there is one, continues.
Exit(selCmd, args) ==
    /\ selCmd # Nil
    /\ selCmd = exit[Top]
    /\ stack' = SubSeq(stack, 1, Len(stack) - 1)
    /\ pc' = IF Len(stack) = 1 THEN "idle" ELSE "prompt"
    /\ result' = IF Len(stack) = 1 THEN "nil" ELSE result
    /\ out' = Event("exit", <<>>, <<>>)
    /\ HeapUnchanged
    /\ UNCHANGED err

\* The selected command has no Run, no Load and no childs: Execute returns
\* the missing-action error.
MissingAction(selCmd, args) ==
    /\ selCmd # Nil
    /\ selCmd # exit[Top]
    /\ run[selCmd] = "nil" /\ load[selCmd] = "nil" /\ childs[selCmd] = <<>>
    /\ pc' = "unwind"
    /\ err' = "MissingAction"
    /\ out' = Event("missing", <<>>, <<>>)
    /\ HeapUnchanged
    /\ UNCHANGED <<stack, result>>

\* selCmd.Run == nil: err = selCmd.Execute().  The nested call either
\* returns an error at once, which this loop returns, or starts its loop.
EnterSub(selCmd, args) ==
    /\ selCmd # Nil
    /\ selCmd # exit[Top]
    /\ ~(run[selCmd] = "nil" /\ load[selCmd] = "nil" /\ childs[selCmd] = <<>>)
    /\ run[selCmd] = "nil"
    /\ LET r == Enter(Heap, selCmd)
       IN /\ Fits(r.heap)
          /\ Commit(r.heap)
          /\ pc' = AfterEnter(r, stack)
          /\ stack' = IF AfterEnter(r, stack) = "unwind" THEN stack
                      ELSE Append(stack, selCmd)
          /\ err' = IF AfterEnter(r, stack) = "unwind" THEN r.err ELSE "nil"
          /\ out' = Event("enter", <<>>, r.loaded)
    /\ UNCHANGED result

\* selCmd.Run(selCmd, args[1:])
RunAction(selCmd, args) ==
    /\ selCmd # Nil
    /\ selCmd # exit[Top]
    /\ run[selCmd] # "nil"
    /\ LET h == DefaultHelp(Heap, selCmd, Tail(args))
       IN IF run[selCmd] = "DefaultHelp"
          THEN /\ out' = Event(h.ev, h.listed, <<>>)
               /\ pc' = IF h.ev = "nilDeref" THEN "panic" ELSE "prompt"
          ELSE /\ out' = Event("run", <<>>, <<>>)
               /\ pc' = "prompt"
    /\ HeapUnchanged
    /\ UNCHANGED <<stack, result, err>>

\* One iteration of the loop on a line that is not empty after trimming:
\* selCmd is found once and the if chain of the loop body decides on it.
Line(args) ==
    /\ pc = "prompt"
    /\ ~eof
    /\ LET selCmd == Selected(args)
       IN \/ Invalid(selCmd, args)
          \/ Exit(selCmd, args)
          \/ MissingAction(selCmd, args)
          \/ EnterSub(selCmd, args)
          \/ RunAction(selCmd, args)
    /\ UNCHANGED <<adds, started, eof, tokvars>>

\* The caller drops the error of the nested call and continues its loop.
UnwindContinue ==
    /\ pc = "unwind"
    /\ stack' = stack
    /\ pc' = "prompt"
    /\ err' = "nil"
    /\ out' = Event("return", <<>>, <<>>)
    /\ HeapUnchanged
    /\ UNCHANGED <<result, adds, started, eof, tokvars>>

\* if err != nil { return err }: the innermost active call returns the error
\* to its caller.
Unwind ==
    /\ pc = "unwind"
    /\ stack' = SubSeq(stack, 1, Len(stack) - 1)
    /\ pc' = IF Len(stack) = 1 THEN "idle" ELSE "unwind"
    /\ result' = IF Len(stack) = 1 THEN err ELSE result
    /\ err' = IF Len(stack) = 1 THEN "nil" ELSE err
    /\ out' = Event("return", <<>>, <<>>)
    /\ HeapUnchanged
    /\ UNCHANGED <<adds, started, eof, tokvars>>

Next ==
    \/ \E p \in Hosts, cmds \in ArgLists : HostAddChild(p, cmds)
    \/ \E p \in Hosts : HostExitCommand(p)
    \/ \E c \in Hosts : HostExecute(c)
    \/ \E e \in {"EOF", "other"} : ReadFail(e)
    \/ EmptyLine
    \/ \E args \in Inputs : Line(args)
    \/ Unwind

Spec == Init /\ [][Next]_vars

\* -------------------------------------------- the loop's strings: SpecTok
\* One iteration of Execute's loop on a line readString returned, followed
\* from the read to the call of parseArgs; the commands stay as constructed.

Lines == UNION {[1..k -> Chars] : k \in 0..MaxLine}

InitTok ==
    /\ name = [n \in Nodes |-> IF n \in Hosts THEN HostName(n) ELSE ""]
    /\ run = [n \in Nodes |-> "nil"]
    /\ load = [n \in Nodes |-> IF n \in Hosts THEN HostLoad(n) ELSE "nil"]
    /\ childs = [n \in Nodes |-> <<>>]
    /\ parent = [n \in Nodes |-> Nil]
    /\ exit = [n \in Nodes |-> Nil]
    /\ help = [n \in Nodes |-> Nil]
    /\ used = Cardinality(Hosts)
    /\ stack = <<>>
    /\ pc = "idle"
    /\ result = "none"
    /\ out = NoOut
    /\ adds = 0
    /\ started = FALSE
    /\ err = "nil"
    /\ eof = FALSE
    /\ line \in Lines
    /\ toks = <<>>
    /\ tpc = "read"

\* input = strings.Trim(input, " ")
TrimInput ==
    /\ tpc = "read"
    /\ line' = Trim(line)
    /\ tpc' = "trimmed"
    /\ UNCHANGED <<toks, cmdvars>>

\* if len(input) == 0 { continue }
SkipEmpty ==
    /\ tpc = "trimmed"
    /\ Len(line) = 0
    /\ tpc' = "skipped"
    /\ UNCHANGED <<line, toks, cmdvars>>

\* args := parseArgs(input)
ParseArgs ==
    /\ tpc = "trimmed"
    /\ Len(line) # 0
    /\ toks' = parseArgs(line)
    /\ tpc' = "parsed"
    /\ UNCHANGED <<line, cmdvars>>

NextTok == TrimInput \/ SkipEmpty \/ ParseArgs

SpecTok == InitTok /\ [][NextTok]_vars

\* ------------------------------------------------------------------ claims

Front(s) == SubSeq(s, 1, Len(s) - 1)

\* C1: a line whose first token is the name of the exit command of the
\* prompting command n ends exactly the loop of n, with a nil error: an
\* enclosing loop stays active and prompts again (no error is in flight, no
\* action ran), and a top-level Execute returns nil only on such a line typed
\* at the outermost loop.
C1_ExitEndsExactlyOneLoop ==
    [][/\ \A args \in Inputs :
            (/\ pc = "prompt"
             /\ exit[Top] # Nil
             /\ args[1] = name[exit[Top]]
             /\ Line(args)) =>
                /\ stack' = Front(stack)
                /\ err' = "nil"
                /\ out'.ev = "exit"
                /\ IF Len(stack) > 1
                   THEN pc' = "prompt" /\ result' = result
                   ELSE pc' = "idle" /\ result' = "nil"
       /\ (pc # "idle" /\ pc' = "idle" /\ result' = "nil") =>
            /\ pc = "prompt"
            /\ Len(stack) = 1
            /\ \E args \in Inputs : Line(args) /\ args[1] = name[exit[Top]]
      ]_vars

\* C1's case: exit typed in a loop nested two deep, two loops still active.
C1_Witness == out.ev = "exit" /\ pc = "prompt" /\ Len(stack) >= 2

\* C2: once readString has failed the loop does not prompt again.
C2_ReadFailureEndsLoop == [][out'.ev = "readError" => pc' # "prompt"]_vars

\* C3: a configuration error raised in a nested loop is returned unchanged by
\* every enclosing Execute call: while it is in flight each step returns from
\* the innermost call, keeps the error, reads no line, runs no action and no
\* Load hook and leaves the tree alone, and the top-level call returns it.
C3_ConfigErrorPropagates ==
    [][pc = "unwind" =>
        /\ err \in {"Neither", "MissingAction"}
        /\ stack' = Front(stack)
        /\ out' = Event("return", <<>>, <<>>)
        /\ <<name, run, load, childs, parent, exit, help, used>>'
             = <<name, run, load, childs, parent, exit, help, used>>
        /\ IF Len(stack) > 1
           THEN pc' = "unwind" /\ err' = err /\ result' = result
           ELSE pc' = "idle" /\ result' = err
      ]_vars

\* C3's case: the entry validation of a selected sub-menu failed two loops deep.
C3_Witness == pc = "unwind" /\ Len(stack) >= 2 /\ err = "Neither"

\* C4: Execute on a command with a Run function and childs returns one
\* configuration error, Execute on a command with neither (once Load has run)
\* returns another; in both cases Execute does not loop, and allocates and
\* attaches nothing.  With Run and childs, or Run and Load, Load is not called.
C4_EntryValidation ==
    [][\A c \in Hosts : HostExecute(c) =>
        /\ (run[c] # "nil" /\ childs[c] # <<>>) =>
              /\ result' = "ActionAndChilds" /\ pc' = "idle" /\ stack' = <<>>
              /\ out'.loaded = <<>>
              /\ <<childs, parent, exit, help, used>>'
                   = <<childs, parent, exit, help, used>>
        /\ (run[c] # "nil" /\ load[c] # "nil") =>
              /\ result' \in {"ActionAndChilds", "RunAndLoad"}
              /\ pc' = "idle" /\ stack' = <<>>
              /\ out'.loaded = <<>>
              /\ <<childs, parent, exit, help, used>>'
                   = <<childs, parent, exit, help, used>>
        /\ (run[c] = "nil" /\ childs[c] = <<>> /\ load[c] # "populate") =>
              /\ result' = "Neither" /\ pc' = "idle" /\ stack' = <<>>
              /\ out'.loaded = (IF load[c] = "nil" THEN <<>> ELSE <<c>>)
              /\ <<childs, parent, exit, help, used>>'
                   = <<childs, parent, exit, help, used>>
      ]_vars

\* C4's case: Execute has returned the error for Run with childs.
C4_Witness == pc = "idle" /\ result = "ActionAndChilds"

\* The exit (help) reference of the nearest command from c up its parent
\* chain that has one, Nil when there is none.
RECURSIVE Nearest(_, _, _)
Nearest(field, c, fuel) ==
    IF c = Nil \/ fuel = 0 THEN Nil
    ELSE IF field[c] # Nil THEN field[c]
    ELSE Nearest(field, parent[c], fuel - 1)

\* x is a command the step allocated, named nm and attached to n.
FreshChild(x, n, nm) ==
    /\ x \in (used + 1)..used'
    /\ name'[x] = nm
    /\ parent'[x] = n
    /\ \E i \in 1..Len(childs'[n]) : childs'[n][i] = x

\* The step starts the loop of a command.
LoopStarts == pc' = "prompt" /\ Len(stack') = Len(stack) + 1

\* C5: a command that starts its loop with no exit (help) command of its own
\* takes the one of its nearest ancestor that has one; when no command of
\* its parent chain has one, a new exit (help) command is created, attached
\* to the command and recorded on it.  Exit and help are resolved apart.
C5_BuiltinResolution ==
    [][LoopStarts =>
        LET n == stack'[Len(stack')]
            e == Nearest(exit, parent[n], MaxNodes)
            h == Nearest(help, parent[n], MaxNodes)
        IN /\ exit[n] = Nil =>
                IF e # Nil THEN exit'[n] = e
                ELSE FreshChild(exit'[n], n, "exit")
           /\ help[n] = Nil =>
                IF h # Nil THEN help'[n] = h
                ELSE FreshChild(help'[n], n, "help")
      ]_vars

\* C5's case: a loop whose command took its parent's exit command while its
\* help command is new, no ancestor having one.
C5_Witness ==
    /\ pc = "prompt"
    /\ parent[Top] # Nil
    /\ exit[parent[Top]] # Nil
    /\ exit[Top] = exit[parent[Top]]
    /\ help[parent[Top]] = Nil
    /\ help[Top] # Nil

InChilds(n, p) == \E i \in 1..Len(childs[p]) : childs[p][i] = n

\* C6: every command is in the childs of at most one command, the one its
\* parent field points to, also after loops were entered and left; stated
\* here for the commands the program itself creates and attaches (exit,
\* help, and what Load hooks add).
C6_SingleOwner ==
    \A n \in Nodes \ Hosts : \A p \in Nodes : InChilds(n, p) => parent[n] = p

\* The parent chain from c ends at a command without parent.
RECURSIVE ReachesRoot(_, _)
ReachesRoot(c, fuel) ==
    IF c = Nil THEN TRUE
    ELSE IF fuel = 0 THEN FALSE
    ELSE ReachesRoot(parent[c], fuel - 1)

\* C7: after AddChild calls that did not abort the parent relation is
\* acyclic, and no RecurseParents walk runs forever.
C7_ParentAcyclic ==
    /\ pc # "panic" => \A n \in Nodes : ReachesRoot(n, MaxNodes)
    /\ pc # "hang"

\* C8: AddChild(p, n1..nk) aborts when some ni is p; otherwise it sets the
\* parent of each ni to p and appends n1..nk to p's childs in argument
\* order, leaving the childs already there, and every other command, as
\* they were.  No command is ever in its own childs.
C8_AddChildAppends ==
    /\ [](\A n \in Nodes : ~InChilds(n, n))
    /\ [][\A p \in Hosts, cmds \in ArgLists : HostAddChild(p, cmds) =>
            IF \E i \in 1..Len(cmds) : cmds[i] = p
            THEN pc' = "panic"
            ELSE /\ pc' = "idle"
                 /\ childs'[p] = childs[p] \o cmds
                 /\ \A q \in Nodes \ {p} : childs'[q] = childs[q]
                 /\ \A n \in Nodes :
                      parent'[n] = IF \E i \in 1..Len(cmds) : cmds[i] = n
                                   THEN p ELSE parent[n]
         ]_vars

\* C8's case: two different commands attached to one command, in one call
\* or in two.
C8_Witness ==
    \E p \in Hosts :
        /\ pc = "idle" /\ ~started /\ adds = 2
        /\ Len(childs[p]) = 2
        /\ childs[p][1] # childs[p][2]
        /\ parent[childs[p][1]] = p /\ parent[childs[p][2]] = p

\* C9: help with no argument, typed at the prompt of command n, lists
\* exactly the childs of n.
C9_HelpListsOwnChilds ==
    (out.ev = "helpList" /\ pc = "prompt") => out.listed = childs[Top]

\* The first double quote of s after position i, 0 when there is none.
FirstQuoteAfter(s, i) ==
    LET q == {j \in (i + 1)..Len(s) : s[j] = Quote}
    IN IF q = {} THEN 0 ELSE CHOOSE j \in q : \A k \in q : j <= k

\* What the tokenizer is to return on a line whose quotes are balanced and
\* whose quoted segments are delimited by whitespace: from position i on,
\* one token for each run of characters that are neither space nor quote,
\* one for each quoted segment, its content.
RECURSIVE Tokens(_, _)
Tokens(s, i) ==
    IF i > Len(s) THEN <<>>
    ELSE IF IsSpace(s[i]) THEN Tokens(s, i + 1)
    ELSE IF s[i] = Quote
    THEN <<SubSeq(s, i + 1, FirstQuoteAfter(s, i) - 1)>>
         \o Tokens(s, FirstQuoteAfter(s, i) + 1)
    ELSE <<SubSeq(s, i, RunEnd(s, i))>> \o Tokens(s, RunEnd(s, i) + 1)

\* From position i on, the quotes of s are balanced, every quoted segment
\* is delimited by whitespace (or the ends of s) and no other token holds a
\* quote.
RECURSIVE Delimited(_, _)
Delimited(s, i) ==
    IF i > Len(s) THEN TRUE
    ELSE IF IsSpace(s[i]) THEN Delimited(s, i + 1)
    ELSE IF s[i] = Quote
    THEN LET j == FirstQuoteAfter(s, i)
         IN /\ j # 0
            /\ j = Len(s) \/ IsSpace(s[j + 1])
            /\ Delimited(s, j + 1)
    ELSE /\ \A j \in i..RunEnd(s, i) : s[j] # Quote
         /\ Delimited(s, RunEnd(s, i) + 1)

\* C10: on such a line parseArgs returns these tokens, in order; none of
\* them holds a double quote.  Stated for the lines that hold a token (what
\* parseArgs returns on a line of tabs alone is another matter).
C10_TokenizerQuoted ==
    (tpc = "parsed" /\ Delimited(line, 1) /\ Tokens(line, 1) # <<>>) =>
        /\ toks = Tokens(line, 1)
        /\ \A i \in 1..Len(toks) : \A j \in 1..Len(toks[i]) : toks[i][j] # Quote

\* The parent chain of c, outermost first, cut after fuel commands.
RECURSIVE Chain(_, _)
Chain(c, fuel) ==
    IF c = Nil \/ fuel = 0 THEN <<>>
    ELSE Chain(parent[c], fuel - 1) \o <<c>>

\* a1 + "/" + ... + ak for the commands ch[i..k].
RECURSIVE Slashed(_, _)
Slashed(ch, i) ==
    IF i = Len(ch) THEN <<name[ch[i]]>>
    ELSE <<name[ch[i]], "/">> \o Slashed(ch, i + 1)

\* C11: the prompt of the loop of a command with no parent is its name and
\* ">"; with parent chain a0, a1, ..., ak = n from the root down it is
\* a0 "(" a1 "/" ... "/" ak ")>".  The walk that builds it ends: no loop
\* prompts on a command whose parent chain is a cycle.
C11_PromptBreadcrumb ==
    pc = "prompt" =>
        LET ch == Chain(Top, MaxNodes)
        IN /\ ReachesRoot(Top, MaxNodes)
           /\ ~Endless(Heap, Top)
           /\ Prompt(Heap, Top) =
                IF Len(ch) = 1 THEN <<name[Top], ">">>
                ELSE <<name[ch[1]], "(">> \o Slashed(ch, 2) \o <<")>">>

\* C11's case: a loop three commands deep, prompting a(b/b)>.
C11_Witness ==
    /\ pc = "prompt"
    /\ Len(Chain(Top, MaxNodes)) = 3
    /\ Prompt(Heap, Top) = <<"a", "(", "b", "/", "b", ")>">>

\* C12: in every call f(current, isFirst, isLast) of a RecurseParents walk
\* that Execute starts at a command of an acyclic chain, isFirst is true
\* exactly when current is the start and isLast exactly when current has
\* no parent, the single call of a walk from a root included.
C12_WalkerFlags ==
    pc = "prompt" =>
        \A k \in 1..Len(stack) :
            ReachesRoot(stack[k], MaxNodes) =>
                LET v == Visits(Heap, stack[k])
                IN \A i \in 1..Len(v) :
                     /\ v[i].first <=> (v[i].cmd = stack[k])
                     /\ v[i].last <=> (parent[v[i].cmd] = Nil)

\* The names Find is asked for: those of the commands, one that differs
\* from a command's name by case only, one no command has.
FindNames == Names \cup {"A", "zz"}

\* C13: Find(n, nm) is the child of n of smallest index whose name is
\* exactly nm, also when several childs carry the name, and nil exactly
\* when no child of n has the name.
C13_FindFirstMatch ==
    \A n \in 1..used : \A nm \in FindNames :
        LET r == Find(Heap, n, nm)
            named == {i \in 1..Len(childs[n]) : name[childs[n][i]] = nm}
        IN /\ r = Nil <=> named = {}
           /\ r # Nil =>
                \E i \in named : /\ childs[n][i] = r
                                 /\ \A j \in named : i <= j

\* C13's case: two different childs named b, and the line b has started
\* the loop of the first.
C13_Witness ==
    /\ pc = "prompt"
    /\ Len(stack) = 2
    /\ LET p == stack[1]
       IN /\ Len(childs[p]) >= 2
          /\ childs[p][1] # childs[p][2]
          /\ name[childs[p][1]] = "b" /\ name[childs[p][2]] = "b"
          /\ stack[2] = childs[p][1]
          /\ Find(Heap, p, "b") = stack[2]

\* What a call of Execute on c that is this step is to do with c's Load
\* hook, for a c with a hook and no Run function.
HookRanOnce(c) ==
    (load[c] # "nil" /\ run[c] = "nil") =>
        /\ out'.loaded = <<c>>
        /\ load[c] = "populate" =>
             /\ Len(childs'[c]) > Len(childs[c])
             /\ FreshChild(childs'[c][Len(childs[c]) + 1], c, "item")
             /\ ReachesRoot(c, MaxNodes) =>
                  /\ pc' = "prompt"
                  /\ stack' = Append(stack, c)
                  /\ Len(childs'[c]) = Len(childs[c]) + 3
                  /\ help'[c] # Nil /\ exit'[c] # Nil
        /\ (load[c] = "noop" /\ childs[c] = <<>>) =>
             /\ pc' \in {"idle", "unwind"}
             /\ childs' = childs /\ help' = help /\ exit' = exit
             /\ IF stack = <<>> THEN result' = "Neither" ELSE err' = "Neither"

\* C14: a call of Execute on a command with a Load hook and no Run function
\* calls the hook once, before the check for neither action nor childs and
\* before help and exit are resolved: what the hook attaches comes first in
\* childs, and a command the hook populates starts its loop, while a command
\* whose hook attaches nothing returns the error with nothing resolved.
C14_LoadOnceBeforeChecks ==
    [][/\ \A c \in Hosts : HostExecute(c) => HookRanOnce(c)
       /\ \A args \in Inputs :
            (/\ pc = "prompt"
             /\ out'.ev = "enter"
             /\ Line(args)) => HookRanOnce(Selected(args))
      ]_vars

\* C14's case: a command without childs whose hook attached one, prompting.
C14_Witness ==
    /\ pc = "prompt"
    /\ out.loaded = <<Top>>
    /\ load[Top] = "populate"
    /\ Len(childs[Top]) = 3
    /\ name[childs[Top][1]] = "item"

\* No child of command n is named nm.
NoChildNamed(n, nm) == \A i \in 1..Len(childs[n]) : name[childs[n][i]] # nm

\* C15: a line whose first token names no child of the prompting command
\* is reported and nothing else: the same loop prompts again, no Execute
\* call returns or starts, no action and no Load hook runs, no error is
\* raised, and every command is as it was.
C15_InvalidCommandContinues ==
    [][\A args \in Inputs :
        (/\ pc = "prompt"
         /\ NoChildNamed(Top, args[1])
         /\ Line(args)) =>
            /\ pc' = "prompt"
            /\ stack' = stack
            /\ out' = Event("invalid", <<>>, <<>>)
            /\ result' = result /\ err' = err
            /\ <<name, run, load, childs, parent, exit, help, used>>'
                 = <<name, run, load, childs, parent, exit, help, used>>
      ]_vars

\* C15's case: an unknown name typed in a nested loop, which prompts again.
C15_Witness == out.ev = "invalid" /\ pc = "prompt" /\ Len(stack) = 2

\* C16: a command whose loop starts again (its help and exit were resolved
\* when it started before) keeps its childs, its exit and its help as the
\* earlier entry left them.  Stated for commands whose Load hook attaches
\* nothing.
C16_ResolutionIdempotent ==
    [][LoopStarts =>
        LET n == stack'[Len(stack')]
        IN (help[n] # Nil /\ exit[n] # Nil /\ load[n] # "populate") =>
              /\ childs'[n] = childs[n]
              /\ exit'[n] = exit[n]
              /\ help'[n] = help[n]
      ]_vars

\* C17: Execute attaches nothing to a command that has a Run function: a
\* command with a Run function and no childs has none after Execute.
C17_ActionHasNoChilds ==
    [][\A c \in Hosts :
        (HostExecute(c) /\ run[c] # "nil" /\ childs[c] = <<>>) =>
            childs'[c] = <<>>
      ]_vars

\* C18: when the selected command (not the exit command) has childs, the
\* loop calls Execute on it, never its Run function; with a Run function
\* too, that call returns the configuration error, which the loop returns.
C18_ChildsTakePriority ==
    [][\A args \in Inputs :
        (/\ pc = "prompt"
         /\ Selected(args) # Nil
         /\ Selected(args) # exit[Top]
         /\ childs[Selected(args)] # <<>>
         /\ Line(args)) =>
            /\ out'.ev = "enter"
            /\ run[Selected(args)] # "nil" =>
                  pc' = "unwind" /\ err' = "ActionAndChilds"
      ]_vars

\* C19: while the loop of a command n is active, n has an exit and a help
\* command, both among n's childs, and Find returns them for their names;
\* the invalid-command message, which reads the help command's name, does
\* not fail.
C19_BuiltinsResolvedAtPrompt ==
    /\ pc \in {"prompt", "unwind"} =>
         \A k \in 1..Len(stack) :
            LET n == stack[k]
            IN /\ exit[n] # Nil /\ help[n] # Nil
               /\ InChilds(exit[n], n) /\ InChilds(help[n], n)
               /\ Find(Heap, n, name[exit[n]]) = exit[n]
               /\ Find(Heap, n, name[help[n]]) = help[n]
    /\ out.ev = "invalid" => pc = "prompt"

\* C19's case: a nested loop whose command took both builtins from its
\* parent, after an unknown name was typed.
C19_Witness ==
    /\ pc = "prompt"
    /\ Len(stack) = 2
    /\ out.ev = "invalid"
    /\ exit[stack[2]] = exit[stack[1]]
    /\ help[stack[2]] = help[stack[1]]
    /\ InChilds(help[stack[2]], stack[2])

\* C20: parseArgs returns at least one element on every line that is not
\* empty after strings.Trim; args[0] and args[1:] are defined.
C20_ParseArgsNonEmpty ==
    tpc = "parsed" => /\ Len(line) > 0
                      /\ Len(toks) >= 1
                      /\ SubSeq(toks, 2, Len(toks)) = Tail(toks)

\* C20's case: a line of tabs alone, which the pattern does not match.
C20_Witness ==
    /\ tpc = "parsed"
    /\ line = <<"\t", "\t">>
    /\ toks = <<line>>

====
